---- MODULE Spec2Model ----
(***************************************************************************)
(* A model of pyRevit's component tree (loader/components.py): containers  *)
(* and commands, the propagation of syspath search paths, the layout       *)
(* driven display order, has_commands, the cache data contract, the        *)
(* package hash and the unique name.                                       *)
(*                                                                         *)
(* Objects are the numbers 1..NumNodes.  A python list that an object      *)
(* holds in syspath_search_paths is a list OBJECT: the attribute holds a   *)
(* reference and path_lists maps every reference to the list's content.    *)
(* A path is a number; 0 stands for the falsy paths '' and None.           *)
(***************************************************************************)
EXTENDS Integers, Sequences, FiniteSets, TLC

\* ------------------------------------------------------------------ bounds
NumNodes == 3
NumContainers == 2
NumPaths == 1

Nodes == 1..NumNodes
Paths == 1..NumPaths
PathArgs == 0..NumPaths

VARIABLES
    kind,                  \* the class of every object
    original_name,         \* self.original_name
    layout_list,           \* self.layout_list: None, or the lines of the layout file
    sub_components,        \* self._sub_components
    syspath_search_paths,  \* self.syspath_search_paths: a reference to a list
    path_lists,            \* the content of every list object
    last,                  \* the last call: its name, receiver, argument
    entity,                \* the cache contract: the objects, their class and __dict__
    cache_dict,            \* the cache contract: the dictionary last exported
    mtime,                 \* the package directory: modification time of every entry
    hash_value,            \* Package.hash_value of every Package object built
    mtime_seen,            \* the modification times at the time hash_value was computed
    directory,             \* the unique name: self.directory of every component built
    unique_name            \* the unique name: self.unique_name of every component built

cacheVars == <<entity, cache_dict>>
hashVars == <<mtime, hash_value, mtime_seen>>
nameVars == <<directory, unique_name>>
treeVars == <<kind, original_name, layout_list, sub_components, syspath_search_paths,
              path_lists>>
builtVars == <<kind, original_name, layout_list, syspath_search_paths,
               cacheVars, hashVars, nameVars>>
vars == <<treeVars, last, cacheVars, hashVars, nameVars>>

\* the parts of the state a behaviour does not use
NoCache == [saved |-> FALSE, source |-> 0, data |-> <<>>]

NoTree ==
    /\ kind = <<>>
    /\ original_name = <<>>
    /\ layout_list = <<>>
    /\ sub_components = <<>>
    /\ syspath_search_paths = <<>>
    /\ path_lists = <<>>

NoEntities == entity = <<>> /\ cache_dict = NoCache

NoPackage == mtime = <<>> /\ hash_value = <<>> /\ mtime_seen = <<>>

NoDirectories == directory = <<>> /\ unique_name = <<>>

\* ----------------------------------------------------------- python lists
InSeq(x, s) == \E i \in 1..Len(s) : s[i] = x

FirstIndex(x, s) == CHOOSE i \in 1..Len(s) : s[i] = x /\ \A j \in 1..(i - 1) : s[j] # x

\* list.remove(x): drops the first occurrence
ListRemove(s, x) ==
    LET k == FirstIndex(x, s)
    IN [i \in 1..(Len(s) - 1) |-> IF i < k THEN s[i] ELSE s[i + 1]]

NoDuplicates(s) == \A i, j \in 1..Len(s) : s[i] = s[j] => i = j

\* ------------------------------------------------------------ class facts
ContainerKinds == {"tab", "panel", "stack", "group"}

is_container(self) == kind[self] \in ContainerKinds

\* the classes a container's allowed_sub_cmps admits (subclasses included)
allowed_sub_cmps(k) ==
    IF k = "tab" THEN {"panel"}
    ELSE IF k = "panel" THEN {"stack", "group", "command"}
    ELSE IF k = "stack" THEN {"group", "command"}
    ELSE IF k = "group" THEN {"command"}
    ELSE {}

\* __init__: self.syspath_search_paths = [] binds a list object of the instance's own
SharedClassList(self) == 1
NewSyspathList(self) == self

\* ------------------------------------------------- search path propagation
NeverHasSyspath(h, self, path) == FALSE
has_syspath(h, self, path) == InSeq(path, h[syspath_search_paths[self]])

\* a command that appends without looking
AppendWithoutLooking(h, self, path) ==
    IF path # 0 THEN [h EXCEPT ![syspath_search_paths[self]] = Append(@, path)] ELSE h

GenericCommand_add_syspath(h, self, path) ==
    IF path # 0 /\ ~has_syspath(h, self, path)
    THEN [h EXCEPT ![syspath_search_paths[self]] = Append(@, path)]
    ELSE h

GenericCommand_remove_syspath(h, self, path) ==
    IF path # 0 /\ has_syspath(h, self, path)
    THEN [h EXCEPT ![syspath_search_paths[self]] = ListRemove(@, path)]
    ELSE h

RECURSIVE add_syspath(_, _, _)
RECURSIVE add_syspath_each(_, _, _, _)
RECURSIVE remove_syspath(_, _, _)
RECURSIVE remove_syspath_each(_, _, _, _)

\* for cmp in self._sub_components: cmp.add_syspath(path)
add_syspath_each(h, cmps, i, path) ==
    IF i > Len(cmps) THEN h
    ELSE add_syspath_each(add_syspath(h, cmps[i], path), cmps, i + 1, path)

AddSyspathNoPush(h, self, path) == GenericCommand_add_syspath(h, self, path)
GenericContainer_add_syspath(h, self, path) ==
    IF path # 0 /\ ~has_syspath(h, self, path)
    THEN LET h1 == add_syspath_each(h, sub_components[self], 1, path)
         IN [h1 EXCEPT ![syspath_search_paths[self]] = Append(@, path)]
    ELSE h

add_syspath(h, self, path) ==
    IF is_container(self) THEN GenericContainer_add_syspath(h, self, path)
    ELSE GenericCommand_add_syspath(h, self, path)

\* for cmp in self._sub_components: cmp.remove_syspath(path)
remove_syspath_each(h, cmps, i, path) ==
    IF i > Len(cmps) THEN h
    ELSE remove_syspath_each(remove_syspath(h, cmps[i], path), cmps, i + 1, path)

GenericContainer_remove_syspath(h, self, path) ==
    IF path # 0 /\ has_syspath(h, self, path)
    THEN LET h1 == remove_syspath_each(h, sub_components[self], 1, path)
         IN [h1 EXCEPT ![syspath_search_paths[self]] = ListRemove(@, path)]
    ELSE h

remove_syspath(h, self, path) ==
    IF is_container(self) THEN GenericContainer_remove_syspath(h, self, path)
    ELSE GenericCommand_remove_syspath(h, self, path)

\* add_component: for path in self.syspath_search_paths: comp.add_syspath(path)
\* (the loop reads the list object as it is at every step)
AddComponentNoPaths(h, self, comp, i) == h
RECURSIVE add_component_paths(_, _, _, _)
add_component_paths(h, self, comp, i) ==
    IF i > Len(h[syspath_search_paths[self]]) THEN h
    ELSE add_component_paths(add_syspath(h, comp, h[syspath_search_paths[self]][i]),
                             self, comp, i + 1)

\* ------------------------------------------------------- layout, display
MaxLayout == 3

Names == {"A", "B"}

\* the reserved tokens of a layout file
SEPARATOR_IDENTIFIER == "---"
SLIDEOUT_IDENTIFIER == ">>>"

LayoutEntries == Names \cup {SEPARATOR_IDENTIFIER, SLIDEOUT_IDENTIFIER}

\* SEPARATOR_IDENTIFIER in layout_item, SLIDEOUT_IDENTIFIER in layout_item
HasSeparator(layout_item) == layout_item = SEPARATOR_IDENTIFIER
HasSlideout(layout_item) == layout_item = SLIDEOUT_IDENTIFIER

\* _read_layout_file: None when the container has no layout file, else its lines
NoLayout == [none |-> TRUE, items |-> <<>>]
LayoutOf(items) == [none |-> FALSE, items |-> items]

SeqsUpTo(S, n) == UNION {[1..k -> S] : k \in 0..n}

\* an item of the display order: a sub-component, or a marker made for the occasion
Component(n) == [type |-> "component", id |-> n]
GenericSeparator == [type |-> "separator", id |-> 0]
GenericSlideout == [type |-> "slideout", id |-> 0]

\* the index of the first sub-component with that original name, 0 when none
FirstNamed(cmps, layout_item) ==
    IF \E k \in 1..Len(cmps) : original_name[cmps[k]] = layout_item
    THEN CHOOSE k \in 1..Len(cmps) :
            /\ original_name[cmps[k]] = layout_item
            /\ \A j \in 1..(k - 1) : original_name[cmps[j]] # layout_item
    ELSE 0

\* the items in the order of the raw list, the layout only filtering
PlaceInRawOrder(items, cmps, i, processed) ==
    SelectSeq([k \in 1..Len(cmps) |-> Component(cmps[k])],
              LAMBDA c : InSeq(original_name[c.id], items))

\* lines 151-156: for layout_item in layout_list: append the first sub-component
\* whose original_name is the item
RECURSIVE place_components(_, _, _, _)
place_components(items, cmps, i, processed) ==
    IF i > Len(items) THEN processed
    ELSE LET k == FirstNamed(cmps, items[i])
         IN place_components(items, cmps, i + 1,
                IF k = 0 THEN processed ELSE Append(processed, Component(cmps[k])))

\* list.insert(index, x), index >= 0: past the end it appends
ListInsert(s, index, x) ==
    LET k == IF index > Len(s) THEN Len(s) ELSE index
    IN SubSeq(s, 1, k) \o <<x>> \o SubSeq(s, k + 1, Len(s))

\* lines 160-165: i_index counts the layout entries from 0
RECURSIVE insert_markers(_, _, _)
insert_markers(items, i_index, processed) ==
    IF i_index > Len(items) - 1 THEN processed
    ELSE LET layout_item == items[i_index + 1]
             last_item_index == Len(items) - 1
         IN insert_markers(items, i_index + 1,
                IF HasSeparator(layout_item) /\ i_index < last_item_index
                THEN ListInsert(processed, i_index, GenericSeparator)
                ELSE IF HasSlideout(layout_item) /\ i_index < last_item_index
                THEN ListInsert(processed, i_index, GenericSlideout)
                ELSE processed)

RawOrder(self) == [i \in 1..Len(sub_components[self]) |-> Component(sub_components[self][i])]

get_components_per_layout(self) ==
    IF (~layout_list[self].none /\ Len(layout_list[self].items) > 0)
       /\ Len(sub_components[self]) > 0
    THEN insert_markers(layout_list[self].items, 0,
             place_components(layout_list[self].items, sub_components[self], 1, <<>>))
    ELSE RawOrder(self)

\* user_config.get_alias: the display name the user configured for a component
get_alias(name) == IF name = "B" THEN "B (alias)" ELSE name

name_of(n) == get_alias(original_name[n])

\* GenericContainer.contains: True, or None (here FALSE) when the loop ends
contains(self, item_name) ==
    \E i \in 1..Len(sub_components[self]) : item_name = name_of(sub_components[self][i])

get_components(self) == sub_components[self]

\* ---------------------------------------------------------- has_commands
\* what a call gives: "True", "False", "None" (the loop ended without a return),
\* or "AttributeError" (the item has no such method)
RECURSIVE has_commands(_)
RECURSIVE scan_items(_, _, _)

\* one step of `for component in self:` in the has_commands of class k
scan_items(k, items, i) ==
    IF i > Len(items) THEN (IF k = "tab" THEN "False" ELSE "None")
    ELSE LET item == items[i]
             marker == item.type # "component"
             leaf == marker \/ ~is_container(item.id)
             \* is_valid_cmd() exists on GenericCommand only
             valid == IF ~marker /\ ~is_container(item.id) THEN "True" ELSE "AttributeError"
             \* has_commands() exists on the container classes only
             inner == IF ~marker /\ is_container(item.id) THEN has_commands(item.id)
                      ELSE "AttributeError"
             answer == IF k = "group" THEN valid
                       ELSE IF k = "tab" THEN inner
                       ELSE IF leaf THEN valid ELSE inner
         IN IF answer \in {"True", "AttributeError"} THEN answer
            ELSE scan_items(k, items, i + 1)

has_commands(self) == scan_items(kind[self], get_components_per_layout(self), 1)

\* ------------------------------------------------------------ tree shape
Children(n) == {sub_components[n][i] : i \in 1..Len(sub_components[n])}

RECURSIVE DescendantsFrom(_, _)
DescendantsFrom(frontier, seen) ==
    LET next == (UNION {Children(n) : n \in frontier}) \ seen
    IN IF next = {} THEN seen ELSE DescendantsFrom(next, seen \cup next)

\* the sub-components of n, recursively (n itself excluded unless on a cycle)
Descendants(n) == DescendantsFrom({n}, {})

HasParent(n) == \E c \in Nodes : n \in Children(c)

ParentOf(n) == CHOOSE c \in Nodes : n \in Children(c)

\* the containers from top down to the parent of d, top included
RECURSIVE ChainAbove(_, _)
ChainAbove(top, d) ==
    IF d = top THEN {} ELSE {ParentOf(d)} \cup ChainAbove(top, ParentOf(d))

Holds(n, p) == has_syspath(path_lists, n, p)

PathsOf(n) == path_lists[syspath_search_paths[n]]

\* ---------------------------------------------------------------- calls
Call(op, self, arg) == [op |-> op, self |-> self, arg |-> arg]

\* container.add_component(comp); the tree builder hands a component of a class
\* in the container's allowed_sub_cmps to one container, once
CallAddComponent(self, comp) ==
    /\ is_container(self)
    /\ kind[comp] \in allowed_sub_cmps(kind[self])
    /\ ~HasParent(comp)
    /\ path_lists' = add_component_paths(path_lists, self, comp, 1)
    /\ sub_components' = [sub_components EXCEPT ![self] = Append(@, comp)]
    /\ last' = Call("add_component", self, comp)
    /\ UNCHANGED builtVars

CallAddSyspath(self, path) ==
    /\ path_lists' = add_syspath(path_lists, self, path)
    /\ last' = Call("add_syspath", self, path)
    /\ UNCHANGED <<builtVars, sub_components>>

CallRemoveSyspath(self, path) ==
    /\ path_lists' = remove_syspath(path_lists, self, path)
    /\ last' = Call("remove_syspath", self, path)
    /\ UNCHANGED <<builtVars, sub_components>>

\* for component in self: the display order is computed, nothing changes
CallIter(self) ==
    /\ is_container(self)
    /\ last' = Call("__iter__", self, 0)
    /\ UNCHANGED <<builtVars, sub_components, path_lists>>

CallHasCommands(self) ==
    /\ is_container(self)
    /\ last' = Call("has_commands", self, 0)
    /\ UNCHANGED <<builtVars, sub_components, path_lists>>

\* ------------------------------------------------------ the tree, built
TreeKind(n) ==
    IF n > NumContainers THEN "command"
    ELSE IF n = 1 THEN "panel" ELSE IF n = 2 THEN "stack" ELSE IF n = 3 THEN "group" ELSE "tab"

\* the library_path each component found under its directory (0: none); two
\* directories never have the same library path
LibraryPaths ==
    {lib \in [Nodes -> PathArgs] :
        \A m, n \in Nodes : (lib[m] # 0 /\ lib[m] = lib[n]) => m = n}

\* after __init__ and __init_from_dir__ of every component: no sub-components,
\* an own list that holds the library path when there is one
Init ==
    /\ kind = [n \in Nodes |-> TreeKind(n)]
    /\ original_name = [n \in Nodes |-> "A"]
    /\ layout_list = [n \in Nodes |-> NoLayout]
    /\ sub_components = [n \in Nodes |-> <<>>]
    /\ syspath_search_paths = [n \in Nodes |-> NewSyspathList(n)]
    /\ \E lib \in LibraryPaths :
          path_lists = [l \in Nodes |-> IF lib[l] # 0 THEN <<lib[l]>> ELSE <<>>]
    /\ last = Call("init", 0, 0)
    /\ NoEntities /\ NoPackage /\ NoDirectories

Next ==
    \/ \E self, comp \in Nodes : CallAddComponent(self, comp)
    \/ \E self \in Nodes, path \in PathArgs : CallAddSyspath(self, path)
    \/ \E self \in Nodes, path \in PathArgs : CallRemoveSyspath(self, path)

Spec == Init /\ [][Next]_vars

\* the tree builder alone: components are added and paths are added, no path
\* is removed
NextGrow ==
    \/ \E self, comp \in Nodes : CallAddComponent(self, comp)
    \/ \E self \in Nodes, path \in PathArgs : CallAddSyspath(self, path)

SpecGrow == Init /\ [][NextGrow]_vars

\* --------------------------------------------- containers with a layout
\* the classes of the components parsed: a tab, a panel and commands; a panel, a
\* stack and commands; a command group and commands
Casts ==
    { [n \in Nodes |-> IF n = 1 THEN "tab" ELSE IF n = 2 THEN "panel" ELSE "command"],
      [n \in Nodes |-> IF n = 1 THEN "panel" ELSE IF n = 2 THEN "stack" ELSE "command"],
      [n \in Nodes |-> IF n = 1 THEN "group" ELSE "command"] }

\* after __init__ and __init_from_dir__ of every component: one container found a
\* layout file in its directory
InitLayout ==
    /\ kind \in Casts
    /\ original_name \in {f \in [Nodes -> Names] : f[1] = "A"}
    /\ \E owner \in Nodes, items \in SeqsUpTo(LayoutEntries, MaxLayout) :
          /\ kind[owner] \in ContainerKinds
          /\ layout_list = [n \in Nodes |-> IF n = owner THEN LayoutOf(items) ELSE NoLayout]
    /\ sub_components = [n \in Nodes |-> <<>>]
    /\ syspath_search_paths = [n \in Nodes |-> NewSyspathList(n)]
    /\ path_lists = [l \in Nodes |-> <<>>]
    /\ last = Call("init", 0, 0)
    /\ NoEntities /\ NoPackage /\ NoDirectories

NextLayout ==
    \/ \E self, comp \in Nodes : CallAddComponent(self, comp)
    \/ \E self \in Nodes : CallIter(self)
    \/ \E self \in Nodes : CallHasCommands(self)

SpecLayout == InitLayout /\ [][NextLayout]_vars

\* ------------------------------------------------ the cache data contract
MaxAssigned == 2

ContainerClasses ==
    {"Tab", "Panel", "StackThreeButtonGroup", "StackTwoButtonGroup",
     "PullDownButtonGroup", "SplitPushButtonGroup", "SplitButtonGroup", "Package"}

CommandClasses == {"LinkButton", "PushButton", "ToggleButton", "SmartButton"}

Classes == ContainerClasses \cup CommandClasses

\* the class attribute type_id
type_id(c) ==
    CASE c = "Tab" -> "TAB_POSTFIX"
      [] c = "Panel" -> "PANEL_POSTFIX"
      [] c = "StackThreeButtonGroup" -> "STACKTHREE_BUTTON_POSTFIX"
      [] c = "StackTwoButtonGroup" -> "STACKTWO_BUTTON_POSTFIX"
      [] c = "PullDownButtonGroup" -> "PULLDOWN_BUTTON_POSTFIX"
      [] c = "SplitPushButtonGroup" -> "SPLITPUSH_BUTTON_POSTFIX"
      [] c = "SplitButtonGroup" -> "SPLIT_BUTTON_POSTFIX"
      [] c = "Package" -> "PACKAGE_POSTFIX"
      [] c = "LinkButton" -> "LINK_BUTTON_POSTFIX"
      [] c = "PushButton" -> "PUSH_BUTTON_POSTFIX"
      [] c = "ToggleButton" -> "TOGGLE_BUTTON_POSTFIX"
      [] c = "SmartButton" -> "SMART_BUTTON_POSTFIX"

\* the instance attributes every __init__ binds
GenericContainer_attrs ==
    {"_sub_components", "directory", "original_name", "name", "unique_name",
     "library_path", "syspath_search_paths", "layout_list", "icon_file"}

Package_attrs == GenericContainer_attrs \cup {"author", "version", "hash_value", "hash_version"}

GenericCommand_attrs ==
    {"directory", "original_name", "ui_title", "name", "icon_file", "script_file",
     "config_script_file", "min_pyrevit_ver", "min_revit_ver", "doc_string", "author",
     "cmd_options", "cmd_context", "unique_name", "unique_avail_name", "library_path",
     "search_paths", "syspath_search_paths"}

LinkButton_attrs == GenericCommand_attrs \cup {"assembly", "command_class"}

ToggleButton_attrs == GenericCommand_attrs \cup {"icon_on_file", "icon_off_file"}

AttrsOf(c) ==
    CASE c = "Package" -> Package_attrs
      [] c = "LinkButton" -> LinkButton_attrs
      [] c = "ToggleButton" -> ToggleButton_attrs
      [] c \in CommandClasses \ {"LinkButton", "ToggleButton"} -> GenericCommand_attrs
      [] OTHER -> GenericContainer_attrs

\* the attributes __init__ binds to [] ; every other one is bound to None
ListAttrs(c) ==
    IF c \in CommandClasses THEN {"syspath_search_paths"}
    ELSE {"_sub_components", "syspath_search_paths"}

\* the object after __init__
new_instance(c) ==
    [class |-> c,
     dict |-> [k \in AttrsOf(c) |-> IF k \in ListAttrs(c) THEN <<>> ELSE "None"]]

\* the object after __init_from_dir__ and the tree builder assigned the
\* attributes in assigned: a list got an item, another attribute a value
built_instance(c, assigned) ==
    [class |-> c,
     dict |-> [k \in AttrsOf(c) |->
                 IF k \in assigned
                 THEN (IF k \in ListAttrs(c) THEN <<"item">> ELSE "value")
                 ELSE (IF k \in ListAttrs(c) THEN <<>> ELSE "None")]]

\* self.type_id: the instance attribute when there is one, else the class attribute
self_type_id(e) ==
    IF "type_id" \in DOMAIN e.dict THEN e.dict["type_id"] ELSE type_id(e.class)

get_cache_data(e) ==
    [k \in (DOMAIN e.dict) \cup {"type_id"} |->
        IF k = "type_id" THEN self_type_id(e) ELSE e.dict[k]]

\* a loader that keeps the attributes the object has already
LoadMissingOnly(e, cd) ==
    [e EXCEPT !.dict = [k \in (DOMAIN e.dict) \cup (DOMAIN cd) |->
                           IF k \in DOMAIN e.dict THEN e.dict[k] ELSE cd[k]]]

load_cache_data(e, cd) ==
    [e EXCEPT !.dict = [k \in (DOMAIN e.dict) \cup (DOMAIN cd) |->
                           IF k \in DOMAIN cd THEN cd[k] ELSE e.dict[k]]]

Entities == 1..2

CallGetCacheData(self) ==
    /\ cache_dict' = [saved |-> TRUE, source |-> self, data |-> get_cache_data(entity[self])]
    /\ last' = Call("get_cache_data", self, 0)
    /\ UNCHANGED <<treeVars, entity, hashVars, nameVars>>

\* the cache loader makes an object of the class the type_id names and hands
\* it the dictionary that was saved
CallLoadCacheData(self) ==
    /\ cache_dict.saved
    /\ cache_dict.data["type_id"] = type_id(entity[self].class)
    /\ entity' = [entity EXCEPT ![self] = load_cache_data(@, cache_dict.data)]
    /\ last' = Call("load_cache_data", self, cache_dict.source)
    /\ UNCHANGED <<treeVars, cache_dict, hashVars, nameVars>>

\* entity 1 was built from a directory, entity 2 is fresh, of the same class
InitCache ==
    /\ \E c \in Classes : \E assigned \in SeqsUpTo(AttrsOf(c), MaxAssigned) :
          entity = <<built_instance(c, {assigned[i] : i \in 1..Len(assigned)}),
                     new_instance(c)>>
    /\ cache_dict = NoCache
    /\ last = Call("init", 0, 0)
    /\ NoTree /\ NoPackage /\ NoDirectories

NextCache ==
    \/ \E self \in Entities : CallGetCacheData(self)
    \/ \E self \in Entities : CallLoadCacheData(self)

SpecCache == InitCache /\ [][NextCache]_vars

\* ------------------------------------------------------ the package hash
MaxTouches == 2

\* the directories os.walk visits, by the postfix of their base name: the
\* package, a tab, a panel in it and a push button in the panel
WalkedDirs == {"PACKAGE_POSTFIX", "TAB_POSTFIX", "PANEL_POSTFIX", "PUSH_BUTTON_POSTFIX"}

\* the files of every directory, by the part of the name the patterns look at:
\* a script, a settings file, the layout file and an icon
WalkedFiles ==
    {"SCRIPT_FILE_FORMAT", "SETTINGS_FILE_EXTENSION", "DEFAULT_LAYOUT_FILE_NAME",
     "DEFAULT_ICON_FILE"}

\* file "." is the directory itself
DirEntries == [dir : WalkedDirs, file : WalkedFiles \cup {"."}]

\* re.search(pat, op.basename(root))
pat_matches(root) == root \in {"TAB_POSTFIX", "PANEL_POSTFIX"}

\* re.search(patfile, filename)
patfile_matches(filename) ==
    filename \in {"SCRIPT_FILE_FORMAT", "SETTINGS_FILE_EXTENSION", "DEFAULT_LAYOUT_FILE_NAME"}

RECURSIVE SumOver(_, _)
SumOver(S, f) ==
    IF S = {} THEN 0
    ELSE LET e == CHOOSE x \in S : TRUE IN f[e] + SumOver(S \ {e}, f)

HashedEntries ==
    {e \in DirEntries : pat_matches(e.dir) /\ (e.file = "." \/ patfile_matches(e.file))}

mtime_sum(mt) == SumOver(HashedEntries, mt)

\* hashlib.md5(str(x)).hexdigest(): equal sums have equal digests and different
\* sums are taken to have different digests
md5_hexdigest(x) == <<"md5", x>>

calculate_hash(mt) == md5_hexdigest(mtime_sum(mt))

Touches(mt) == SumOver(DirEntries, [e \in DirEntries |-> mt[e] - 1])

Packages == 1..2

\* somebody edits a file, or adds or removes an entry of a directory
Touch(e) ==
    /\ Touches(mtime) < MaxTouches
    /\ mtime' = [mtime EXCEPT ![e] = @ + 1]
    /\ last' = Call("touch", 0, e)
    /\ UNCHANGED <<treeVars, cacheVars, hash_value, mtime_seen, nameVars>>

\* Package.__init_from_dir__ in a session: the hash of the directory as it is now
PackageInitFromDir(self) ==
    /\ hash_value' = [hash_value EXCEPT ![self] = calculate_hash(mtime)]
    /\ mtime_seen' = [mtime_seen EXCEPT ![self] = mtime]
    /\ last' = Call("__init_from_dir__", self, 0)
    /\ UNCHANGED <<treeVars, cacheVars, mtime, nameVars>>

InitHash ==
    /\ mtime = [e \in DirEntries |-> 1]
    /\ hash_value = [p \in Packages |-> "None"]
    /\ mtime_seen = [p \in Packages |-> [e \in DirEntries |-> 0]]
    /\ last = Call("init", 0, 0)
    /\ NoTree /\ NoEntities /\ NoDirectories

NextHash ==
    \/ \E e \in DirEntries : Touch(e)
    \/ \E self \in Packages : PackageInitFromDir(self)

SpecHash == InitHash /\ [][NextHash]_vars

\* -------------------------------------------------------- the unique name
MaxSegments == 2

\* a string is the sequence of its characters
sep == "/"

\* the names a directory of the tree can have: without an extension, with
\* the extension of a tab (.t) or of a panel (.p), with a space in the name
SegmentNames ==
    { <<"a">>,
      <<"a", ".", "t">>,
      <<"a", ".", "p">>,
      <<"b", ".", "t">>,
      <<"a", "b", ".", "t">>,
      <<"a", " ", "b", ".", "t">> }

RECURSIVE Join(_)
Join(segments) ==
    IF Len(segments) = 0 THEN <<>>
    ELSE IF Len(segments) = 1 THEN segments[1]
    ELSE segments[1] \o <<sep>> \o Join(Tail(segments))

Directories == {Join(d) : d \in SeqsUpTo(SegmentNames, MaxSegments) \ {<<>>}}

\* dir_str.split(op.sep)
RECURSIVE split(_)
split(str) ==
    IF ~InSeq(sep, str) THEN <<str>>
    ELSE LET i == FirstIndex(sep, str)
         IN <<SubSeq(str, 1, i - 1)>> \o split(SubSeq(str, i + 1, Len(str)))

\* op.splitext(dname): the extension starts at the last dot, when a character
\* that is not a dot stands before it
splitext(dname) ==
    LET dots == {i \in 1..Len(dname) : dname[i] = "."} IN
    IF dots = {} THEN [name |-> dname, ext |-> <<>>]
    ELSE LET dotIndex == CHOOSE i \in dots : \A j \in dots : j <= i IN
         IF \E j \in 1..(dotIndex - 1) : dname[j] # "."
         THEN [name |-> SubSeq(dname, 1, dotIndex - 1),
               ext |-> SubSeq(dname, dotIndex, Len(dname))]
         ELSE [name |-> dname, ext |-> <<>>]

\* coreutils.cleanup_string: the characters that cannot stand in a class name
\* are taken out
cleanup_string(str) == SelectSeq(str, LAMBDA c : c # " ")

RECURSIVE concat_names(_, _)
concat_names(dnames, i) ==
    IF i > Len(dnames) THEN <<>>
    ELSE LET parts == splitext(dnames[i])
         IN (IF parts.ext # <<>> THEN parts.name ELSE <<>>) \o concat_names(dnames, i + 1)

get_unique_name(dir_str) == cleanup_string(concat_names(split(dir_str), 1))

Components == 1..2

\* __init_from_dir__ of a container or a command: directory and unique_name
InitFromDir(self, dir) ==
    /\ directory' = [directory EXCEPT ![self] = dir]
    /\ unique_name' = [unique_name EXCEPT ![self] = get_unique_name(dir)]
    /\ last' = Call("__init_from_dir__", self, 0)
    /\ UNCHANGED <<treeVars, cacheVars, hashVars>>

InitName ==
    /\ directory = [c \in Components |-> <<>>]
    /\ unique_name = [c \in Components |-> <<>>]
    /\ last = Call("init", 0, 0)
    /\ NoTree /\ NoEntities /\ NoPackage

NextName == \E self \in Components, dir \in Directories : InitFromDir(self, dir)

SpecName == InitName /\ [][NextName]_vars

\* ------------------------------------------- construction from a directory
MaxFailing == 1

BuiltClasses == Classes \cup {"LibraryPackage"}

LibraryPackage_attrs == {"directory", "name"}

\* the object after __init__, LibraryPackage included
new_object(c) ==
    IF c = "LibraryPackage"
    THEN [class |-> c, dict |-> [k \in LibraryPackage_attrs |-> "None"]]
    ELSE new_instance(c)

\* the parameters GenericCommand.__init_from_dir__ extracts, in its order
ScriptParams ==
    <<"ui_title", "doc_string", "author", "min_pyrevit_ver", "min_revit_ver",
      "cmd_options", "cmd_context">>

\* the parameters LinkButton.__init_from_dir__ extracts, in its order
LinkParams == <<"assembly", "command_class">>

VersionParams == {"min_pyrevit_ver", "min_revit_ver"}

\* what extract_param does for a parameter: it raises, or returns the declared
\* value (a version: one the running program satisfies, "low", or a greater
\* one, "high"), or returns None where the code looks at the value (the script
\* does not declare the parameter)
ExtractOutcomes(param) ==
    IF param \in VersionParams THEN {"None", "low", "high", "raise"}
    ELSE IF param \in {"ui_title", "cmd_context"} THEN {"None", "extracted", "raise"}
    ELSE {"extracted", "raise"}

ScriptParamOutcomes ==
    [ui_title : ExtractOutcomes("ui_title"),
     doc_string : ExtractOutcomes("doc_string"),
     author : ExtractOutcomes("author"),
     min_pyrevit_ver : ExtractOutcomes("min_pyrevit_ver"),
     min_revit_ver : ExtractOutcomes("min_revit_ver"),
     cmd_options : ExtractOutcomes("cmd_options"),
     cmd_context : ExtractOutcomes("cmd_context")]

LinkParamOutcomes ==
    [ui_title : ExtractOutcomes("ui_title"),
     doc_string : ExtractOutcomes("doc_string"),
     author : ExtractOutcomes("author"),
     min_pyrevit_ver : ExtractOutcomes("min_pyrevit_ver"),
     min_revit_ver : ExtractOutcomes("min_revit_ver"),
     cmd_options : ExtractOutcomes("cmd_options"),
     cmd_context : ExtractOutcomes("cmd_context"),
     assembly : ExtractOutcomes("assembly"),
     command_class : ExtractOutcomes("command_class")]

FailingParams(params) == Cardinality({p \in DOMAIN params : params[p] = "raise"})

ParamOutcomes(c) ==
    IF c = "LinkButton" THEN {ps \in LinkParamOutcomes : FailingParams(ps) <= MaxFailing}
    ELSE IF c \in CommandClasses
         THEN {ps \in ScriptParamOutcomes : FailingParams(ps) <= MaxFailing}
         ELSE {<<>>}

Failing(dir) == FailingParams(dir.params) + (IF dir.parser = "raise" THEN 1 ELSE 0)

\* the directories __init_from_dir__ can be handed: what the name ends with,
\* which files exist, what the script's parameters do
DirInputs(c) ==
    {dir \in [endswith_type_id : BOOLEAN,
              icon : IF c = "LibraryPackage" THEN {FALSE} ELSE BOOLEAN,
              lib : IF c = "LibraryPackage" THEN {FALSE} ELSE BOOLEAN,
              layout : IF c \in ContainerClasses THEN BOOLEAN ELSE {FALSE},
              script : IF c \in CommandClasses THEN BOOLEAN ELSE {FALSE},
              config_script : IF c \in CommandClasses THEN BOOLEAN ELSE {FALSE},
              on_icon : IF c = "ToggleButton" THEN BOOLEAN ELSE {FALSE},
              off_icon : IF c = "ToggleButton" THEN BOOLEAN ELSE {FALSE},
              parser : IF c \in CommandClasses THEN {"ok", "raise"} ELSE {"ok"},
              params : ParamOutcomes(c)] :
        Failing(dir) <= MaxFailing}

\* full_file_path if op.exists(full_file_path) else None
path_if_exists(exists, full_file_path) == IF exists THEN full_file_path ELSE "None"

Raised(d, exc) == [dict |-> d, raised |-> exc]

GenericContainer_init_from_dir(e, dir) ==
    LET d1 == [e.dict EXCEPT !["_sub_components"] = <<>>, !["directory"] = "branch_dir"]
    IN IF ~dir.endswith_type_id THEN Raised(d1, "PyRevitUnknownFormatError")
       ELSE Raised([d1 EXCEPT
                       !["original_name"] = "basename",
                       !["name"] = get_alias("basename"),
                       !["unique_name"] = "unique_name",
                       !["library_path"] = path_if_exists(dir.lib, "lib_path"),
                       !["syspath_search_paths"] =
                           IF dir.lib THEN Append(@, "lib_path") ELSE @,
                       !["layout_list"] = IF dir.layout THEN "lines" ELSE "None",
                       !["icon_file"] = path_if_exists(dir.icon, "icon_path")],
                   "None")

Package_init_from_dir(e, dir) ==
    LET r == GenericContainer_init_from_dir(e, dir)
    IN IF r.raised # "None" THEN r
       ELSE Raised([r.dict EXCEPT !["hash_value"] = "hash",
                                  !["hash_version"] = "full_version"], "None")

LibraryPackage_init_from_dir(e, dir) ==
    LET d1 == [e.dict EXCEPT !["directory"] = "package_dir"]
    IN IF ~dir.endswith_type_id THEN Raised(d1, "PyRevitUnknownFormatError")
       ELSE Raised([d1 EXCEPT !["name"] = "basename"], "None")

\* the statements of a try block that extract params[i], params[i+1], ...: the
\* first extract_param that raises ends the block
RECURSIVE extract_params(_, _, _, _)
extract_params(d, dir, params, i) ==
    IF i > Len(params) THEN d
    ELSE LET out == dir.params[params[i]]
         IN IF out = "raise" THEN d
            ELSE IF params[i] = "ui_title" /\ out = "None"
                 THEN extract_params(d, dir, params, i + 1)
                 ELSE extract_params([d EXCEPT ![params[i]] = out], dir, params, i + 1)

\* try: ScriptFileParser(...); extract ... except PyRevitException: logger.error
try_extract(d, dir, params) ==
    IF dir.parser = "raise" THEN d ELSE extract_params(d, dir, params, 1)

\* _check_dependencies: TRUE when it raises
check_dependencies_raises(d) ==
    IF d["min_revit_ver"] # "None" /\ d["min_revit_ver"] = "high" THEN TRUE
    ELSE d["min_pyrevit_ver"] # "None" /\ d["min_pyrevit_ver"] = "high"

\* a command that keeps None in config_script_file
ScriptFilesNoFallback(d, dir) ==
    [d EXCEPT !["config_script_file"] = path_if_exists(dir.config_script, "config_path")]

\* config_script_file: the config script, or the script when there is none
set_config_script_file(d, dir) ==
    LET config == path_if_exists(dir.config_script, "config_path")
    IN [d EXCEPT !["config_script_file"] =
                     IF config = "None" THEN d["script_file"] ELSE config]

GenericCommand_init_from_dir(e, dir) ==
    LET d1 == [e.dict EXCEPT !["directory"] = "cmd_dir"]
    IN IF ~dir.endswith_type_id THEN Raised(d1, "PyRevitUnknownFormatError")
       ELSE
       LET d2 == [d1 EXCEPT !["original_name"] = "basename",
                            !["name"] = get_alias("basename"),
                            !["ui_title"] = get_alias("basename"),
                            !["icon_file"] = path_if_exists(dir.icon, "icon_path"),
                            !["script_file"] = path_if_exists(dir.script, "script_path")]
       IN IF d2["script_file"] = "None" THEN Raised(d2, "PyRevitNoScriptFileError")
          ELSE
          LET d3 == set_config_script_file(d2, dir)
              d4 == try_extract(d3, dir, ScriptParams)
          IN IF check_dependencies_raises(d4) THEN Raised(d4, "PyRevitException")
             ELSE Raised([d4 EXCEPT
                             !["unique_name"] = "unique_name",
                             !["unique_avail_name"] =
                                 IF d4["cmd_context"] # "None" THEN "unique_avail_name" ELSE @,
                             !["library_path"] = path_if_exists(dir.lib, "lib_path"),
                             !["syspath_search_paths"] =
                                 IF dir.lib THEN Append(@, "lib_path") ELSE @],
                         "None")

LinkButton_init_from_dir(e, dir) ==
    LET r == GenericCommand_init_from_dir(e, dir)
    IN IF r.raised # "None" THEN r
       ELSE Raised(try_extract([r.dict EXCEPT !["assembly"] = "None",
                                              !["command_class"] = "None"],
                               dir, LinkParams),
                   "None")

ToggleButton_init_from_dir(e, dir) ==
    LET r == GenericCommand_init_from_dir(e, dir)
    IN IF r.raised # "None" THEN r
       ELSE Raised([r.dict EXCEPT
                       !["icon_on_file"] = path_if_exists(dir.on_icon, "on_icon_path"),
                       !["icon_off_file"] = path_if_exists(dir.off_icon, "off_icon_path")],
                   "None")

\* __init_from_dir__ of the object's class
init_from_dir(e, dir) ==
    CASE e.class = "LibraryPackage" -> LibraryPackage_init_from_dir(e, dir)
      [] e.class = "Package" -> Package_init_from_dir(e, dir)
      [] e.class = "LinkButton" -> LinkButton_init_from_dir(e, dir)
      [] e.class = "ToggleButton" -> ToggleButton_init_from_dir(e, dir)
      [] e.class \in {"PushButton", "SmartButton"} -> GenericCommand_init_from_dir(e, dir)
      [] OTHER -> GenericContainer_init_from_dir(e, dir)

has_config_script(e) == e.dict["config_script_file"] # e.dict["script_file"]

\* the tree builder makes an object and calls __init_from_dir__ on it, once;
\* last.arg keeps the directory and the exception raised
IsFresh(self) == entity[self] = new_object(entity[self].class)

CallInitFromDir(self, dir) ==
    /\ IsFresh(self)
    /\ LET r == init_from_dir(entity[self], dir)
       IN /\ entity' = [entity EXCEPT ![self] = [@ EXCEPT !.dict = r.dict]]
          /\ last' = Call("__init_from_dir__", self, [dir |-> dir, raised |-> r.raised])
    /\ UNCHANGED <<treeVars, cache_dict, hashVars, nameVars>>

InitBuild ==
    /\ \E c \in BuiltClasses : entity = <<new_object(c)>>
    /\ cache_dict = NoCache
    /\ last = Call("init", 0, 0)
    /\ NoTree /\ NoPackage /\ NoDirectories

NextBuild ==
    IsFresh(1) /\ \E dir \in DirInputs(entity[1].class) : CallInitFromDir(1, dir)

SpecBuild == InitBuild /\ [][NextBuild]_vars

\* ==================================================================== claims

\* ---- the display order (SpecLayout)
DisplayOrder(self) == get_components_per_layout(self)

NamesOnly(items) == \A i \in 1..Len(items) : items[i] \in Names

\* the layout entries that are the original name of some sub-component
Matched(items, self) ==
    SelectSeq(items, LAMBDA e : \E c \in Children(self) : original_name[c] = e)

LayoutFilters(self) ==
    LET D == DisplayOrder(self)
        items == layout_list[self].items
    IN /\ \A i \in 1..Len(D) : D[i].type = "component" /\ D[i].id \in Children(self)
       /\ [i \in 1..Len(D) |-> original_name[D[i].id]] = Matched(items, self)
       /\ \A c \in Children(self) :
             ~InSeq(original_name[c], items) =>
                 /\ ~InSeq(Component(c), D)
                 /\ InSeq(c, get_components(self))
                 /\ contains(self, name_of(c))

IsMarkerEntry(e) == HasSeparator(e) \/ HasSlideout(e)

MarkerFor(e) == IF HasSeparator(e) THEN GenericSeparator ELSE GenericSlideout

\* the positions of the markers in a display order, ascending
RECURSIVE MarkerPositions(_, _)
MarkerPositions(D, i) ==
    IF i > Len(D) THEN <<>>
    ELSE (IF D[i].type # "component" THEN <<i>> ELSE <<>>) \o MarkerPositions(D, i + 1)

\* C2: every separator or slideout entry that is not the last entry produces one
\* marker, after every component an earlier entry placed and before every
\* component a later entry placed.
C2_MarkersBetween ==
    (/\ last.op = "__iter__"
     /\ ~layout_list[last.self].none
     /\ Len(sub_components[last.self]) > 0)
        => LET items == layout_list[last.self].items
               cmps == sub_components[last.self]
               D == DisplayOrder(last.self)
               pos == MarkerPositions(D, 1)
               entries == {i \in 1..(Len(items) - 1) : IsMarkerEntry(items[i])}
           IN /\ Len(pos) = Cardinality(entries)
              /\ \A i \in entries :
                    LET k == Cardinality({j \in entries : j <= i})
                        placed == Cardinality({j \in 1..(i - 1) :
                                                  FirstNamed(cmps, items[j]) # 0})
                    IN /\ D[pos[k]] = MarkerFor(items[i])
                       /\ Cardinality({j \in 1..(pos[k] - 1) : D[j].type = "component"})
                             = placed

\* C6: has_commands() completes, and answers true exactly when an item of the
\* display order is a valid command or a sub-container whose has_commands() is true.
C6_HasCommands ==
    last.op = "has_commands" =>
        LET D == DisplayOrder(last.self)
            r == has_commands(last.self)
        IN /\ r # "AttributeError"
           /\ (r = "True") <=>
                 \E i \in 1..Len(D) :
                    /\ D[i].type = "component"
                    /\ is_container(D[i].id) => has_commands(D[i].id) = "True"

\* ---- search paths (Spec)
\* C3 (as stated): after add_component(comp) the component and every one of its
\* descendants hold every path the container held at the call, and comp is
\* appended to the raw list, the earlier elements unchanged.
C3_AddComponentReachesAllDescendants ==
    [][\A self, comp \in Nodes :
          (last' = Call("add_component", self, comp)) =>
              /\ \A p \in Paths : Holds(self, p) =>
                    \A d \in {comp} \cup Descendants(comp) : Holds(d, p)'
              /\ sub_components'[self] = Append(sub_components[self], comp)]_vars

\* C3 (amended): after add_component(comp) the component holds every path the
\* container held at the call and is appended to the raw list, the earlier
\* elements unchanged; a descendant d of comp holds such a path when no container
\* from comp down to the parent of d held it before the call.
C3_AddComponentPropagates ==
    [][\A self, comp \in Nodes :
          (last' = Call("add_component", self, comp)) =>
              /\ \A p \in Paths : Holds(self, p) =>
                    /\ Holds(comp, p)'
                    /\ \A d \in Descendants(comp) :
                          (\A a \in ChainAbove(comp, d) : ~Holds(a, p)) => Holds(d, p)'
              /\ sub_components'[self] = Append(sub_components[self], comp)]_vars

\* a container that holds a path has just been given a container whose own
\* sub-component received the path with it
C3_Witness ==
    /\ last.op = "add_component"
    /\ \E p \in Paths :
          /\ Holds(last.self, p)
          /\ Holds(last.arg, p)
          /\ \E d \in Descendants(last.arg) : Holds(d, p)
    /\ sub_components[last.self][Len(sub_components[last.self])] = last.arg

\* C4 (as stated): after add_syspath(p), p non-empty, on a container, the
\* container and every one of its descendants hold p.
C4_AddSyspathReachesAllDescendants ==
    [][\A self \in Nodes, p \in Paths :
          (last' = Call("add_syspath", self, p) /\ is_container(self)) =>
              \A d \in {self} \cup Descendants(self) : Holds(d, p)']_vars

\* C4 (amended): after add_syspath(p), p non-empty, on a container, the container
\* holds p, and so does every descendant d such that no container from the
\* receiver down to the parent of d held p before the call.
C4_AddSyspathPushesDown ==
    [][\A self \in Nodes, p \in Paths :
          (last' = Call("add_syspath", self, p) /\ is_container(self)) =>
              /\ Holds(self, p)'
              /\ \A d \in Descendants(self) :
                    (\A a \in ChainAbove(self, d) : ~Holds(a, p)) => Holds(d, p)']_vars

\* add_syspath has just pushed a path through a container to a sub-component of
\* one of its sub-components
C4_Witness ==
    /\ last.op = "add_syspath"
    /\ last.arg # 0
    /\ is_container(last.self)
    /\ \E c \in Children(last.self) : Children(c) # {}
    /\ \A d \in {last.self} \cup Descendants(last.self) : Holds(d, last.arg)

\* C9: add_syspath and remove_syspath change only the lists of the receiver and
\* of its descendants, and no two components hold the same list object.
C9_DownwardOnly ==
    /\ [](\A m, n \in Nodes :
             syspath_search_paths[m] = syspath_search_paths[n] => m = n)
    /\ [][\A self \in Nodes, p \in PathArgs :
             (last' = Call("add_syspath", self, p) \/ last' = Call("remove_syspath", self, p)) =>
                 \A m \in Nodes \ ({self} \cup Descendants(self)) : PathsOf(m)' = PathsOf(m)]_vars

\* a path was added to a component that has a container and a sibling, neither
\* of which holds it
C9_Witness ==
    /\ last.op = "add_syspath"
    /\ last.arg # 0
    /\ HasParent(last.self)
    /\ Holds(last.self, last.arg)
    /\ ~Holds(ParentOf(last.self), last.arg)
    /\ \E s \in Children(ParentOf(last.self)) \ {last.self} : ~Holds(s, last.arg)

\* C10: a second add_syspath(p) (remove_syspath(p)) on the same component right
\* after the first changes no list, and a call with an empty path changes none.
C10_Idempotent ==
    /\ last.op = "add_syspath" => add_syspath(path_lists, last.self, last.arg) = path_lists
    /\ last.op = "remove_syspath"
          => remove_syspath(path_lists, last.self, last.arg) = path_lists
    /\ \A n \in Nodes :
          /\ add_syspath(path_lists, n, 0) = path_lists
          /\ remove_syspath(path_lists, n, 0) = path_lists

\* add_syspath has just stored a path in a container and in its sub-component
C10_Witness ==
    /\ last.op = "add_syspath"
    /\ last.arg # 0
    /\ Children(last.self) # {}
    /\ \A d \in {last.self} \cup Children(last.self) : Holds(d, last.arg)

\* ------------------------------------------------------------------- C5
\* C5: after load_cache_data of the dictionary that get_cache_data of an
\* entity returned, get_cache_data of the loaded entity (of the same class)
\* equals get_cache_data of the entity the dictionary came from, attribute by
\* attribute, the sub-component list of a container and type_id included, and
\* type_id is the one of the class.
C5_CacheRoundTrip ==
    (last.op = "load_cache_data") =>
        LET loaded == get_cache_data(entity[last.self])
            from == get_cache_data(entity[last.arg])
        IN /\ loaded = from
           /\ \A k \in DOMAIN from : loaded[k] = from[k]
           /\ loaded["type_id"] = type_id(entity[last.self].class)
           /\ entity[last.self].class \in ContainerClasses =>
                 loaded["_sub_components"] = entity[last.arg].dict["_sub_components"]

\* a fresh container took the dictionary of a built container that has a
\* sub-component
C5_Witness ==
    /\ last = Call("load_cache_data", 2, 1)
    /\ entity[1].class \in ContainerClasses
    /\ entity[1].dict["_sub_components"] # <<>>
    /\ entity[2].dict["_sub_components"] = entity[1].dict["_sub_components"]

\* ------------------------------------------------------------------- C7
RaisedOnly(a, b, e) ==
    /\ mtime_seen[b][e] > mtime_seen[a][e]
    /\ \A o \in DirEntries \ {e} : mtime_seen[b][o] = mtime_seen[a][o]

\* C7: two Package objects that saw the same modification times of the hashed
\* directories and files have the same hash_value; when one saw a later
\* modification time of one file of the package whose name matches the
\* relevant-file pattern, and nothing else differs, the hash_values differ; when
\* only an icon file's modification time differs, the hash_values are equal.
C7_PackageHash ==
    \A a, b \in Packages :
        (hash_value[a] # "None" /\ hash_value[b] # "None") =>
            /\ (\A e \in HashedEntries : mtime_seen[a][e] = mtime_seen[b][e])
                   => hash_value[a] = hash_value[b]
            /\ \A e \in DirEntries :
                  (e.file # "." /\ patfile_matches(e.file) /\ RaisedOnly(a, b, e))
                      => hash_value[a] # hash_value[b]
            /\ \A e \in DirEntries :
                  (e.file = "DEFAULT_ICON_FILE" /\ RaisedOnly(a, b, e))
                      => hash_value[a] = hash_value[b]

\* ------------------------------------------------------------------- C8
SuffixedSegments(dir_str) ==
    SelectSeq(split(dir_str), LAMBDA dname : splitext(dname).ext # <<>>)

\* C8: components built from the same directory have the same unique_name, and
\* components built from directories whose sequences of segments that have an
\* extension differ have different unique_names.
C8_UniqueName ==
    \A c, d \in Components :
        (directory[c] # <<>> /\ directory[d] # <<>>) =>
            /\ directory[c] = directory[d] => unique_name[c] = unique_name[d]
            /\ SuffixedSegments(directory[c]) # SuffixedSegments(directory[d])
                   => unique_name[c] # unique_name[d]

\* ------------------------------------------------------------------ C11
\* C11: a separator or slideout token that is the last layout entry produces no
\* marker (the display order has no more markers than the layout has marker
\* entries before its last entry), and the display order of a container never
\* ends with a separator or slideout marker.
C11_NoTrailingMarker ==
    (/\ last.op = "__iter__"
     /\ ~layout_list[last.self].none)
        => LET items == layout_list[last.self].items
               D == DisplayOrder(last.self)
           IN /\ Len(MarkerPositions(D, 1))
                     <= Cardinality({i \in 1..(Len(items) - 1) : IsMarkerEntry(items[i])})
              /\ Len(D) > 0 => D[Len(D)].type = "component"

\* ------------------------------------------------------------------ C15
CountIn(items, e) == Cardinality({i \in 1..Len(items) : items[i] = e})

\* C15: under a layout, no raw sub-component is displayed twice, and the
\* displayed components of one original name are the first k raw sub-components
\* of that name, k being the number of layout entries with the name, or the
\* number of such sub-components when there are fewer.
C15_FirstNotYetPlaced ==
    (/\ last.op = "__iter__"
     /\ ~layout_list[last.self].none
     /\ Len(layout_list[last.self].items) > 0
     /\ Len(sub_components[last.self]) > 0)
        => LET items == layout_list[last.self].items
               D == DisplayOrder(last.self)
               shown == SelectSeq(D, LAMBDA x : x.type = "component")
           IN /\ NoDuplicates(shown)
              /\ \A e \in Names :
                    LET raw == SelectSeq(RawOrder(last.self),
                                         LAMBDA x : original_name[x.id] = e)
                        k == IF CountIn(items, e) < Len(raw)
                             THEN CountIn(items, e) ELSE Len(raw)
                    IN SelectSeq(shown, LAMBDA x : original_name[x.id] = e)
                           = SubSeq(raw, 1, k)

\* ------------------------------------------------------------------ C17
\* C17: while components are only added and paths only added, every
\* sub-component holds every path its container holds, and no search path list
\* holds a path twice.
C17_PathsInherited ==
    /\ \A n \in Nodes : \A c \in Children(n) : \A p \in Paths :
          Holds(n, p) => Holds(c, p)
    /\ \A l \in Nodes : NoDuplicates(path_lists[l])

\* add_syspath on a container whose sub-component has a command: all three
\* hold the path
C17_Witness ==
    /\ last.op = "add_syspath"
    /\ last.arg # 0
    /\ \E c \in Children(last.self) : \E d \in Children(c) :
          /\ ~is_container(d)
          /\ Holds(last.self, last.arg) /\ Holds(c, last.arg) /\ Holds(d, last.arg)

\* ---- construction from a directory (SpecBuild)
Built == last.op = "__init_from_dir__"

BuiltDir == last.arg.dir

BuiltCommand ==
    /\ Built
    /\ entity[last.self].class \in CommandClasses
    /\ BuiltDir.endswith_type_id

\* ------------------------------------------------------------------ C12
\* C12: __init_from_dir__ of a command whose script declares a minimum host
\* version greater than the running one, or a minimum program version greater
\* than the running one, raises the dependency error, whatever the other
\* parameters do, also when the extraction of another parameter raises.
C12_VersionGating ==
    (/\ BuiltCommand
     /\ BuiltDir.script
     /\ (BuiltDir.params["min_revit_ver"] = "high"
            \/ BuiltDir.params["min_pyrevit_ver"] = "high"))
        => last.arg.raised = "PyRevitException"

\* ------------------------------------------------------------------ C13
\* C13: __init_from_dir__ of a container, a command or a library package on a
\* directory that does not end with the class's type_id raises the unknown
\* format error and the object is as it was before the call (here: as __init__
\* left it), attribute by attribute.
C13_FormatError ==
    (Built /\ ~BuiltDir.endswith_type_id)
        => /\ last.arg.raised = "PyRevitUnknownFormatError"
           /\ \A k \in DOMAIN entity[last.self].dict :
                 entity[last.self].dict[k] = new_object(entity[last.self].class).dict[k]

\* ------------------------------------------------------------------ C14
\* the attributes the extraction and the version check would have set are as
\* __init__ left them (ui_title is the name)
NothingExtracted(e) ==
    /\ \A i \in 2..Len(ScriptParams) : e.dict[ScriptParams[i]] = "None"
    /\ e.dict["ui_title"] = e.dict["name"]
    /\ e.dict["unique_name"] = "None"

\* C14: __init_from_dir__ of a command on a directory with the right ending and
\* no script file raises the no-script-file error and no parameter was
\* extracted, no version checked; when the script exists and no config script
\* exists, the command constructed has config_script_file equal to script_file
\* and has_config_script() is false.
C14_ScriptPresence ==
    BuiltCommand =>
        /\ ~BuiltDir.script =>
              /\ last.arg.raised = "PyRevitNoScriptFileError"
              /\ NothingExtracted(entity[last.self])
        /\ (BuiltDir.script /\ ~BuiltDir.config_script /\ last.arg.raised = "None") =>
              /\ entity[last.self].dict["script_file"] = "script_path"
              /\ entity[last.self].dict["config_script_file"]
                     = entity[last.self].dict["script_file"]
              /\ ~has_config_script(entity[last.self])

\* a command directory without a script whose parameters would have raised the
\* dependency error
C14_Witness ==
    /\ BuiltCommand
    /\ ~BuiltDir.script
    /\ BuiltDir.params["min_revit_ver"] = "high"
    /\ last.arg.raised = "PyRevitNoScriptFileError"

\* ------------------------------------------------------------------ C16
\* C16: when the extraction of exactly one parameter raises during the
\* construction of a command (and no declared version asks for more than is
\* running), the construction succeeds, the attribute of that parameter is
\* left unset, and every other parameter whose extraction returns a value has
\* that value in its attribute.
C16_PerFieldContainment ==
    (/\ BuiltCommand
     /\ BuiltDir.script
     /\ BuiltDir.parser = "ok"
     /\ FailingParams(BuiltDir.params) = 1
     /\ \A v \in VersionParams : BuiltDir.params[v] # "high")
        => LET e == entity[last.self]
           IN /\ last.arg.raised = "None"
              /\ \A p \in DOMAIN BuiltDir.params :
                    IF BuiltDir.params[p] = "raise"
                    THEN e.dict[p] = (IF p = "ui_title" THEN e.dict["name"] ELSE "None")
                    ELSE BuiltDir.params[p] # "None" => e.dict[p] = BuiltDir.params[p]

====
